---- MODULE Spec2Model ----
(***************************************************************************)
(* Model of schema_validator.py: main(session) reconciles the tables and   *)
(* columns of a source and a target catalog and returns the rows of the    *)
(* column-level comparison that carry at least one FAIL.                   *)
(*                                                                         *)
(* The two catalogs (information_schema.tables / .columns of each side)    *)
(* are the inputs.  One run of main is the sequence                        *)
(*   ListSourceTables ; ListTargetTables ;                                 *)
(*   (LookupTable ; FetchSourceColumns ; ProcessTable)* ;                  *)
(*   OrderBy ; FilterReturn                                                *)
(* with one step per catalog query, and Rerun starts a second invocation   *)
(* on the same session.                                                    *)
(***************************************************************************)
EXTENDS Integers, Sequences, FiniteSets, TLC

VARIABLES
    source_cat,     \* db1.information_schema of schema1: [tables, columns]
    target_cat,     \* db2.information_schema of schema2: [tables, columns]
    pc,             \* position in main: start, tables2, loop, cols1, cols2,
                    \* filter, done, error
    run,            \* which invocation of main is executing (1 or 2)
    table1_set,     \* local table1_set
    table2_set,     \* local table2_set
    pending,        \* the part of sorted(all_tables) not yet iterated
    table_name,     \* loop variable of the table loop
    table1,         \* local table1
    table2_name,    \* local table2_name (unbound until first assigned)
    status_table_name,      \* local status_table_name
    table1_columns_dict,    \* local table1_columns_dict
    table2_columns_dict,    \* local table2_columns_dict
    results,        \* local results, the list of appended tuples
    result_df,      \* local result_df after order_by
    filtered_df,    \* the returned data frame
    first_report    \* the data frame the first invocation returned

vars == << source_cat, target_cat, pc, run, table1_set, table2_set, pending,
           table_name, table1, table2_name, status_table_name,
           table1_columns_dict, table2_columns_dict, results, result_df,
           filtered_df, first_report >>

(***************************************************************************)
(* Python values.  None is the empty tuple, a present value v is <<v>>, so *)
(* that None is never equal to a string or a number.                       *)
(***************************************************************************)
None == << >>

Some(v) == << v >>

\* A local variable that has not been assigned yet.
Unbound == << "unbound", "local" >>

\* The sentinel written into the result tuples.
NULL == "NULL"

EXCLUDED_COLUMNS ==
    { "CREATED_AT", "UPDATED_AT", "CREATED_BY", "UPDATED_BY", "LOAD_TIMESTAMP" }

(***************************************************************************)
(* Bounds and input universes.                                             *)
(***************************************************************************)
\* Largest number of column rows in the two catalogs together.
MaxColumns == 3

TableNames == { "A", "B" }

ColumnNames == { "CREATED_AT", "ID", "NULL" }

\* The strings the model sorts, in code-point order (Python's str order).
CodePointOrder == << "A", "B", "CREATED_AT", "ID", "NULL" >>

Descriptor(dt, scale, prec, len) ==
    [ DATA_TYPE |-> dt, NUMERIC_SCALE |-> scale, NUMERIC_PRECISION |-> prec,
      CHARACTER_MAXIMUM_LENGTH |-> len ]

\* Descriptors of the many-column catalogs.
WideDescriptors ==
    { Descriptor(Some("TEXT"), None, None, Some(16777216)),
      Descriptor(Some("TEXT"), None, None, Some(8388607)),
      Descriptor(Some("NUMBER"), Some(0), Some(10), None) }

\* Descriptors of the one-column catalogs: a TEXT column with nothing else
\* set, and that column with one attribute changed.
DeepDescriptors ==
    { Descriptor(dt, None, None, None) :
          dt \in { None, Some(""), Some("TEXT"), Some("NUMBER") } }
    \cup { Descriptor(Some("TEXT"), s, None, None) : s \in { Some(0), Some(2) } }
    \cup { Descriptor(Some("TEXT"), None, p, None) : p \in { Some(0), Some(10) } }
    \cup { Descriptor(Some("TEXT"), None, None, l) :
               l \in { Some(0), Some(8388607), Some(16777216) } }

ColumnRow(t, c, d) ==
    [ TABLE_NAME |-> t, COLUMN_NAME |-> c, DATA_TYPE |-> d.DATA_TYPE,
      NUMERIC_SCALE |-> d.NUMERIC_SCALE,
      NUMERIC_PRECISION |-> d.NUMERIC_PRECISION,
      CHARACTER_MAXIMUM_LENGTH |-> d.CHARACTER_MAXIMUM_LENGTH ]

RECURSIVE SubsetsUpTo(_, _)
SubsetsUpTo(S, k) ==
    IF k = 0 THEN { {} }
    ELSE LET P == SubsetsUpTo(S, k - 1)
         IN  P \cup { p \cup { e } : p \in P, e \in S }

\* A catalog whose tables are the tables of its column rows: every listed
\* table has at least one column.
Catalog(C) == [ tables |-> { r.TABLE_NAME : r \in C }, columns |-> C ]

EmptyCatalog == [ tables |-> {}, columns |-> {} ]

\* Column rows tagged with the side that holds them.
SideRows ==
    { [ side |-> sd, row |-> ColumnRow(t, c, d) ] :
        sd \in { "source", "target" },
        t \in TableNames, c \in ColumnNames, d \in WideDescriptors }

\* Within one table of one side the column names are unique.
UniqueNames(X) ==
    \A x1 \in X, x2 \in X :
        ( /\ x1.side = x2.side
          /\ x1.row.TABLE_NAME = x2.row.TABLE_NAME
          /\ x1.row.COLUMN_NAME = x2.row.COLUMN_NAME ) => x1 = x2

\* Pairs of catalogs with up to MaxColumns column rows between them.
WidePairs ==
    { [ source |-> Catalog({ x.row : x \in { y \in X : y.side = "source" } }),
        target |-> Catalog({ x.row : x \in { y \in X : y.side = "target" } }) ] :
        X \in { Y \in SubsetsUpTo(SideRows, MaxColumns) : UniqueNames(Y) } }

\* One table with one column of any descriptor, or no table at all.
DeepCatalogs ==
    { Catalog({ ColumnRow("A", c, d) }) :
        c \in { "ID", "NULL" }, d \in DeepDescriptors }
    \cup { EmptyCatalog }

DeepPairs ==
    { [ source |-> s, target |-> t ] : s \in DeepCatalogs, t \in DeepCatalogs }

(***************************************************************************)
(* Built-ins.                                                              *)
(***************************************************************************)
\* Position of a string in code-point order: s1 < s2 in Python iff
\* Rank(s1) < Rank(s2).
Rank(s) == CHOOSE i \in 1..Len(CodePointOrder) : CodePointOrder[i] = s

\* sorted(S) for a set of strings.
RECURSIVE sorted(_)
sorted(S) ==
    IF S = {} THEN << >>
    ELSE LET m == CHOOSE x \in S : \A y \in S : Rank(x) <= Rank(y)
         IN  << m >> \o sorted(S \ { m })

\* str(n) for an int.
str(n) == ToString(n)

(***************************************************************************)
(* The column lookups of one table.                                        *)
(***************************************************************************)
\* Faulty variant of columns_dict: the isin(EXCLUDED_COLUMNS) filter is missing.
columns_dict_unfiltered(cat, table) ==
    { r \in cat.columns : r.TABLE_NAME = table }

\* The rows of information_schema.columns for one table, without the
\* excluded columns, keyed by COLUMN_NAME (names are unique, so the dict is
\* the set of its rows).
columns_dict(cat, table) ==
    { r \in cat.columns :
        r.TABLE_NAME = table /\ r.COLUMN_NAME \notin EXCLUDED_COLUMNS }

keys(dict) == { r.COLUMN_NAME : r \in dict }

get(dict, column_name) == CHOOSE r \in dict : r.COLUMN_NAME = column_name

\* row["DATA_TYPE"] if row["DATA_TYPE"] else "NULL": None and "" are falsy.
data_type_of(row) ==
    IF row.DATA_TYPE # None /\ row.DATA_TYPE[1] # "" THEN row.DATA_TYPE[1]
    ELSE NULL

\* str(row[f]) if row[f] is not None else "NULL"
str_or_null(v) == IF v # None THEN str(v[1]) ELSE NULL

\* The five values of one side of a comparison row.
side_values(dict, column_name) ==
    IF column_name \in keys(dict)
    THEN LET row == get(dict, column_name)
         IN  [ data_type |-> data_type_of(row),
               scale |-> str_or_null(row.NUMERIC_SCALE),
               precision |-> str_or_null(row.NUMERIC_PRECISION),
               char_max_length |-> str_or_null(row.CHARACTER_MAXIMUM_LENGTH),
               column_name |-> row.COLUMN_NAME ]
    ELSE [ data_type |-> NULL, scale |-> NULL, precision |-> NULL,
           char_max_length |-> NULL, column_name |-> NULL ]

(***************************************************************************)
(* The status rules.                                                       *)
(***************************************************************************)
status_column_name(table1_column_name, table2_column_name) ==
    IF table1_column_name # NULL /\ table2_column_name # NULL
    THEN IF table1_column_name = table2_column_name THEN "PASS" ELSE "FAIL"
    ELSE "FAIL"

status_data_type(data_type1, data_type2) ==
    IF data_type1 # NULL /\ data_type2 # NULL
    THEN IF data_type1 = data_type2 THEN "PASS" ELSE "FAIL"
    ELSE "FAIL"

\* Faulty variant of status_char_max_length: the tolerated pair is accepted in both
\* directions.
status_char_max_length_symmetric(char_max_length1, char_max_length2) ==
    IF char_max_length1 # NULL /\ char_max_length2 # NULL
    THEN IF char_max_length1 = char_max_length2 THEN "PASS"
         ELSE IF { char_max_length1, char_max_length2 } = { "16777216", "8388607" }
              THEN "PASS"
              ELSE "FAIL"
    ELSE IF char_max_length1 = NULL /\ char_max_length2 = NULL THEN "PASS"
         ELSE "FAIL"

status_char_max_length(char_max_length1, char_max_length2) ==
    IF char_max_length1 # NULL /\ char_max_length2 # NULL
    THEN IF char_max_length1 = char_max_length2 THEN "PASS"
         ELSE IF char_max_length1 = "16777216" /\ char_max_length2 = "8388607"
              THEN "PASS"
              ELSE "FAIL"
    ELSE IF char_max_length1 = NULL /\ char_max_length2 = NULL THEN "PASS"
         ELSE "FAIL"

status_scale(scale1, scale2) ==
    IF scale1 # NULL /\ scale2 # NULL
    THEN IF scale1 = scale2 THEN "PASS" ELSE "FAIL"
    ELSE IF scale1 = NULL /\ scale2 = NULL THEN "PASS" ELSE "FAIL"

status_precision(precision1, precision2) ==
    IF precision1 # NULL /\ precision2 # NULL
    THEN IF precision1 = precision2 THEN "PASS" ELSE "FAIL"
    ELSE IF precision1 = NULL /\ precision2 = NULL THEN "PASS" ELSE "FAIL"

\* table1 != table2_name
table_status(t1, t2) == IF t1 # t2 THEN "FAIL" ELSE "PASS"

(***************************************************************************)
(* One appended tuple, with the field names of result_schema.              *)
(***************************************************************************)
result_row(t1, t2, status, dict1, dict2, column_name) ==
    LET v1 == side_values(dict1, column_name)
        v2 == side_values(dict2, column_name)
    IN  [ SOURCE_TABLE_NAME |-> IF t1 # None THEN t1[1] ELSE NULL,
          TARGET_TABLE_NAME |-> IF t2 # None THEN t2[1] ELSE NULL,
          STATUS_TABLE_NAME |-> status,
          SOURCE_COLUMN_NAME |-> v1.column_name,
          TARGET_COLUMN_NAME |-> v2.column_name,
          STATUS_COLUMN_NAME |->
              status_column_name(v1.column_name, v2.column_name),
          SOURCE_DATA_TYPE |-> v1.data_type,
          TARGET_DATA_TYPE |-> v2.data_type,
          STATUS_DATA_TYPE |-> status_data_type(v1.data_type, v2.data_type),
          SOURCE_CHARACTER_MAXIMUM_LENGTH |-> v1.char_max_length,
          TARGET_CHARACTER_MAXIMUM_LENGTH |-> v2.char_max_length,
          STATUS_CHARACTER_MAXIMUM_LENGTH |->
              status_char_max_length(v1.char_max_length, v2.char_max_length),
          SOURCE_SCALE |-> v1.scale,
          TARGET_SCALE |-> v2.scale,
          STATUS_SCALE |-> status_scale(v1.scale, v2.scale),
          SOURCE_PRECISION |-> v1.precision,
          TARGET_PRECISION |-> v2.precision,
          STATUS_PRECISION |-> status_precision(v1.precision, v2.precision) ]

\* The tuples the column loop of one iteration appends, in
\* sorted(all_columns) order.
table_rows(t1, t2, status, dict1, dict2) ==
    LET all_columns == sorted(keys(dict1) \cup keys(dict2))
    IN  [ i \in 1..Len(all_columns) |->
            result_row(t1, t2, status, dict1, dict2, all_columns[i]) ]

(***************************************************************************)
(* order_by and the filter.                                                *)
(***************************************************************************)
\* row1 sorts strictly before row2 under
\* order_by("SOURCE_TABLE_NAME", "TARGET_TABLE_NAME").
key_less(row1, row2) ==
    \/ Rank(row1.SOURCE_TABLE_NAME) < Rank(row2.SOURCE_TABLE_NAME)
    \/ /\ row1.SOURCE_TABLE_NAME = row2.SOURCE_TABLE_NAME
       /\ Rank(row1.TARGET_TABLE_NAME) < Rank(row2.TARGET_TABLE_NAME)

\* The frames order_by can deliver: the rows in any arrangement that is
\* ascending in the two keys.  The statement is ORDER BY on two keys and
\* nothing else, so the mutual order of rows with equal keys is left to the
\* database.
order_by(rows) ==
    { [ i \in DOMAIN rows |-> rows[p[i]] ] :
        p \in { q \in Permutations(DOMAIN rows) :
                  \A i \in DOMAIN rows, j \in DOMAIN rows :
                      i < j => ~key_less(rows[q[j]], rows[q[i]]) } }

\* Faulty variant of is_mismatch: the STATUS_PRECISION condition is missing.
is_mismatch_without_precision(row) ==
    \/ row.STATUS_TABLE_NAME = "FAIL"
    \/ row.STATUS_COLUMN_NAME = "FAIL"
    \/ row.STATUS_DATA_TYPE = "FAIL"
    \/ row.STATUS_CHARACTER_MAXIMUM_LENGTH = "FAIL"
    \/ row.STATUS_SCALE = "FAIL"

\* The filter condition of filtered_df.
is_mismatch(row) ==
    \/ row.STATUS_TABLE_NAME = "FAIL"
    \/ row.STATUS_COLUMN_NAME = "FAIL"
    \/ row.STATUS_DATA_TYPE = "FAIL"
    \/ row.STATUS_CHARACTER_MAXIMUM_LENGTH = "FAIL"
    \/ row.STATUS_SCALE = "FAIL"
    \/ row.STATUS_PRECISION = "FAIL"

filter_rows(rows) == SelectSeq(rows, is_mismatch)

(***************************************************************************)
(* State machine.                                                          *)
(***************************************************************************)
Init ==
    /\ \E p \in WidePairs \cup DeepPairs :
        /\ source_cat = p.source
        /\ target_cat = p.target
    /\ pc = "start"
    /\ run = 1
    /\ table1_set = {}
    /\ table2_set = {}
    /\ pending = << >>
    /\ table_name = None
    /\ table1 = Unbound
    /\ table2_name = Unbound
    /\ status_table_name = Unbound
    /\ table1_columns_dict = {}
    /\ table2_columns_dict = {}
    /\ results = << >>
    /\ result_df = << >>
    /\ filtered_df = << >>
    /\ first_report = << >>

\* Lines 33-47: the listing of the source tables (collect of line 47).
ListSourceTables ==
    /\ pc = "start"
    /\ table1_set' = source_cat.tables
    /\ pc' = "tables2"
    /\ UNCHANGED << source_cat, target_cat, run, table2_set, pending,
                    table_name, table1, table2_name, status_table_name,
                    table1_columns_dict, table2_columns_dict, results,
                    result_df, filtered_df, first_report >>

\* Lines 48-98: the listing of the target tables (collect of line 48), the
\* union, results = [], and the start of the loop over sorted(all_tables).
ListTargetTables ==
    /\ pc = "tables2"
    /\ table2_set' = target_cat.tables
    /\ pending' = sorted(table1_set \cup target_cat.tables)
    /\ results' = << >>
    /\ pc' = "loop"
    /\ UNCHANGED << source_cat, target_cat, run, table1_set, table_name,
                    table1, table2_name, status_table_name,
                    table1_columns_dict, table2_columns_dict, result_df,
                    filtered_df, first_report >>

\* Faulty variant of next_table2_name: the else branch that resets table2_name to
\* None is missing.
next_table2_name_without_reset(t) ==
    IF t \in table2_set /\ t \in target_cat.tables THEN Some(t) ELSE table2_name

\* The value of table2_name after lines 108-119 for the table being
\* processed: the second lookup of the table in the target catalog assigns
\* it only when the lookup returns a row.
next_table2_name(t) ==
    IF t \in table2_set
    THEN IF t \in target_cat.tables THEN Some(t) ELSE table2_name
    ELSE None

\* Lines 98-125: the head of an iteration, with the lookup of the table in
\* the target catalog (collect of line 115) and the table verdict.  Reading
\* table2_name while it is unbound raises, which ends the run without a
\* report.
LookupTable ==
    /\ pc = "loop"
    /\ pending # << >>
    /\ LET t == Head(pending)
           t1 == IF t \in table1_set THEN Some(t) ELSE None
           t2 == next_table2_name(t)
       IN  /\ table_name' = Some(t)
           /\ pending' = Tail(pending)
           /\ table1' = t1
           /\ IF t2 = Unbound
              THEN /\ pc' = "error"
                   /\ UNCHANGED << table2_name, status_table_name >>
              ELSE /\ pc' = "cols1"
                   /\ table2_name' = t2
                   /\ status_table_name' = table_status(t1, t2)
    /\ UNCHANGED << source_cat, target_cat, run, table1_set, table2_set,
                    table1_columns_dict, table2_columns_dict, results,
                    result_df, filtered_df, first_report >>

\* Lines 127-143: the column query of the source table (collect of line 140).
FetchSourceColumns ==
    /\ pc = "cols1"
    /\ table1_columns_dict' =
           IF table1 # None THEN columns_dict(source_cat, table1[1]) ELSE {}
    /\ pc' = "cols2"
    /\ UNCHANGED << source_cat, target_cat, run, table1_set, table2_set,
                    pending, table_name, table1, table2_name,
                    status_table_name, table2_columns_dict, results,
                    result_df, filtered_df, first_report >>

\* Lines 145-267: the column query of the target table (collect of line
\* 157) and the column loop, which appends the rows of the table.
ProcessTable ==
    /\ pc = "cols2"
    /\ LET dict2 == IF table2_name # None
                    THEN columns_dict(target_cat, table2_name[1])
                    ELSE {}
       IN  /\ table2_columns_dict' = dict2
           /\ results' = results \o
                  table_rows(table1, table2_name, status_table_name,
                             table1_columns_dict, dict2)
    /\ pc' = "loop"
    /\ UNCHANGED << source_cat, target_cat, run, table1_set, table2_set,
                    pending, table_name, table1, table2_name,
                    status_table_name, table1_columns_dict, result_df,
                    filtered_df, first_report >>

\* Lines 269-274: create_dataframe and order_by, once the loop is over.
OrderBy ==
    /\ pc = "loop"
    /\ pending = << >>
    /\ \E df \in order_by(results) : result_df' = df
    /\ pc' = "filter"
    /\ UNCHANGED << source_cat, target_cat, run, table1_set, table2_set,
                    pending, table_name, table1, table2_name,
                    status_table_name, table1_columns_dict,
                    table2_columns_dict, results, filtered_df, first_report >>

\* Lines 276-289: the filter and the return.
FilterReturn ==
    /\ pc = "filter"
    /\ filtered_df' = filter_rows(result_df)
    /\ pc' = "done"
    /\ UNCHANGED << source_cat, target_cat, run, table1_set, table2_set,
                    pending, table_name, table1, table2_name,
                    status_table_name, table1_columns_dict,
                    table2_columns_dict, results, result_df, first_report >>

\* A second call of main on the same session: the caller keeps the first
\* report, and every local of main starts unassigned again.
Rerun ==
    /\ pc = "done"
    /\ run = 1
    /\ run' = 2
    /\ first_report' = filtered_df
    /\ pc' = "start"
    /\ table1_set' = {}
    /\ table2_set' = {}
    /\ pending' = << >>
    /\ table_name' = None
    /\ table1' = Unbound
    /\ table2_name' = Unbound
    /\ status_table_name' = Unbound
    /\ table1_columns_dict' = {}
    /\ table2_columns_dict' = {}
    /\ results' = << >>
    /\ result_df' = << >>
    /\ filtered_df' = << >>
    /\ UNCHANGED << source_cat, target_cat >>

\* Another session drops a table of the target schema.  This can happen at
\* any moment: before or between the two listings (lines 47 and 48), between
\* the listing and the queries of the loop (lines 115 and 157), and between
\* two invocations of main.
DropTargetTable ==
    /\ \E t \in target_cat.tables :
        target_cat' =
            [ tables |-> target_cat.tables \ { t },
              columns |-> { r \in target_cat.columns : r.TABLE_NAME # t } ]
    /\ UNCHANGED << source_cat, pc, run, table1_set, table2_set, pending,
                    table_name, table1, table2_name, status_table_name,
                    table1_columns_dict, table2_columns_dict, results,
                    result_df, filtered_df, first_report >>

\* Another session drops a table of the source schema, at any moment: the
\* source column query of line 140 then returns no row for a listed table.
DropSourceTable ==
    /\ \E t \in source_cat.tables :
        source_cat' =
            [ tables |-> source_cat.tables \ { t },
              columns |-> { r \in source_cat.columns : r.TABLE_NAME # t } ]
    /\ UNCHANGED << target_cat, pc, run, table1_set, table2_set, pending,
                    table_name, table1, table2_name, status_table_name,
                    table1_columns_dict, table2_columns_dict, results,
                    result_df, filtered_df, first_report >>

Next ==
    \/ ListSourceTables
    \/ ListTargetTables
    \/ LookupTable
    \/ FetchSourceColumns
    \/ ProcessTable
    \/ OrderBy
    \/ FilterReturn
    \/ Rerun

\* Unchanged catalog snapshots.
Spec == Init /\ [][Next]_vars

NextDrift == Next \/ DropTargetTable \/ DropSourceTable

\* Tables may be dropped from either schema while main runs.
SpecDrift == Init /\ [][NextDrift]_vars

(***************************************************************************)
(* Vocabulary of the properties.                                           *)
(***************************************************************************)
Rows(df) == { df[i] : i \in DOMAIN df }

\* The table and the reconciled column a row was assembled for.
TableOf(row) ==
    IF row.SOURCE_TABLE_NAME # NULL THEN row.SOURCE_TABLE_NAME
    ELSE row.TARGET_TABLE_NAME

ColumnOf(row) ==
    IF row.SOURCE_COLUMN_NAME # NULL THEN row.SOURCE_COLUMN_NAME
    ELSE row.TARGET_COLUMN_NAME

RowsOfTable(df, t) == { i \in DOMAIN df : TableOf(df[i]) = t }

\* The catalog's own view of a column.
Present(cat, t, c) ==
    \E r \in cat.columns : r.TABLE_NAME = t /\ r.COLUMN_NAME = c

CatalogRow(cat, t, c) ==
    CHOOSE r \in cat.columns : r.TABLE_NAME = t /\ r.COLUMN_NAME = c

ComparedColumns(cat, t) ==
    { r.COLUMN_NAME : r \in { x \in cat.columns :
        x.TABLE_NAME = t /\ x.COLUMN_NAME \notin EXCLUDED_COLUMNS } }

SomeStatusFails(row) ==
    "FAIL" \in { row.STATUS_TABLE_NAME, row.STATUS_COLUMN_NAME,
                 row.STATUS_DATA_TYPE, row.STATUS_CHARACTER_MAXIMUM_LENGTH,
                 row.STATUS_SCALE, row.STATUS_PRECISION }

SourceValues(row) ==
    { row.SOURCE_TABLE_NAME, row.SOURCE_COLUMN_NAME, row.SOURCE_DATA_TYPE,
      row.SOURCE_CHARACTER_MAXIMUM_LENGTH, row.SOURCE_SCALE,
      row.SOURCE_PRECISION }

TargetValues(row) ==
    { row.TARGET_TABLE_NAME, row.TARGET_COLUMN_NAME, row.TARGET_DATA_TYPE,
      row.TARGET_CHARACTER_MAXIMUM_LENGTH, row.TARGET_SCALE,
      row.TARGET_PRECISION }

(***************************************************************************)
(* C1  Filter completeness.                                                *)
(***************************************************************************)
\* C1: when main has returned, a row of the unfiltered, ordered comparison
\* set is in the returned report iff at least one of its six statuses is
\* FAIL, and the report holds nothing but rows of that set.
C1_FilterCompleteness ==
    pc = "done" =>
        /\ \A row \in Rows(result_df) :
               (row \in Rows(filtered_df)) <=> SomeStatusFails(row)
        /\ Rows(filtered_df) \subseteq Rows(result_df)

\* A finished run whose comparison set has a row that was dropped (all six
\* PASS) and a row that was kept.
C1_Witness ==
    /\ pc = "done"
    /\ \E r1 \in Rows(result_df), r2 \in Rows(result_df) :
        /\ ~SomeStatusFails(r1) /\ r1 \notin Rows(filtered_df)
        /\ SomeStatusFails(r2) /\ r2 \in Rows(filtered_df)

(***************************************************************************)
(* C4  Exclusion invariant.                                                *)
(***************************************************************************)
\* C4: no row of results, of the unfiltered set or of the report names an
\* excluded column in SOURCE_COLUMN_NAME or TARGET_COLUMN_NAME.
C4_ExclusionInvariant ==
    \A row \in Rows(results) \cup Rows(result_df) \cup Rows(filtered_df) :
        /\ row.SOURCE_COLUMN_NAME \notin EXCLUDED_COLUMNS
        /\ row.TARGET_COLUMN_NAME \notin EXCLUDED_COLUMNS

\* A finished run over a table of both catalogs in which an excluded column
\* differs between the sides, and whose report is not empty.
C4_Witness ==
    /\ pc = "done"
    /\ filtered_df # << >>
    /\ \E r1 \in source_cat.columns, r2 \in target_cat.columns :
        /\ r1.COLUMN_NAME \in EXCLUDED_COLUMNS
        /\ r1.TABLE_NAME = r2.TABLE_NAME
        /\ r1.COLUMN_NAME = r2.COLUMN_NAME
        /\ r1 # r2

(***************************************************************************)
(* C5  Character-maximum-length rule.                                      *)
(***************************************************************************)
\* The length a side holds for a reconciled column: absent when the column
\* is not on that side.
LengthOn(cat, t, c) ==
    IF Present(cat, t, c) THEN CatalogRow(cat, t, c).CHARACTER_MAXIMUM_LENGTH
    ELSE None

LengthRule(l1, l2) ==
    IF l1 = None /\ l2 = None THEN "PASS"
    ELSE IF l1 = None \/ l2 = None THEN "FAIL"
    ELSE IF l1[1] = l2[1] \/ (l1[1] = 16777216 /\ l2[1] = 8388607) THEN "PASS"
    ELSE "FAIL"

\* C5: in every appended row STATUS_CHARACTER_MAXIMUM_LENGTH is PASS when
\* both lengths are absent, FAIL when exactly one is, and otherwise PASS
\* exactly when the lengths are equal or source = 16777216 and
\* target = 8388607.
C5_LengthRule ==
    \A row \in Rows(results) :
        row.STATUS_CHARACTER_MAXIMUM_LENGTH =
            LengthRule(LengthOn(source_cat, TableOf(row), ColumnOf(row)),
                       LengthOn(target_cat, TableOf(row), ColumnOf(row)))

\* A row compared the tolerated pair: source 16777216, target 8388607.
C5_Witness ==
    \E row \in Rows(results) :
        /\ LengthOn(source_cat, TableOf(row), ColumnOf(row)) = Some(16777216)
        /\ LengthOn(target_cat, TableOf(row), ColumnOf(row)) = Some(8388607)
        /\ row.STATUS_CHARACTER_MAXIMUM_LENGTH = "PASS"

(***************************************************************************)
(* C8  Output ordering.                                                    *)
(***************************************************************************)
InReportOrder(df) ==
    \A i \in DOMAIN df, j \in DOMAIN df :
        i < j =>
            LET a == df[i]
                b == df[j]
            IN  \/ Rank(a.SOURCE_TABLE_NAME) < Rank(b.SOURCE_TABLE_NAME)
                \/ /\ a.SOURCE_TABLE_NAME = b.SOURCE_TABLE_NAME
                   /\ Rank(a.TARGET_TABLE_NAME) < Rank(b.TARGET_TABLE_NAME)
                \/ /\ a.SOURCE_TABLE_NAME = b.SOURCE_TABLE_NAME
                   /\ a.TARGET_TABLE_NAME = b.TARGET_TABLE_NAME
                   /\ Rank(ColumnOf(a)) < Rank(ColumnOf(b))

\* C8 as stated: the ordered comparison set and the returned report are
\* ascending by (SOURCE_TABLE_NAME, TARGET_TABLE_NAME), and rows with the same
\* pair are in column iteration order, ascending by reconciled column name.
C8_OutputOrdering ==
    /\ pc \in { "filter", "done" } => InReportOrder(result_df)
    /\ pc = "done" => InReportOrder(filtered_df)

(***************************************************************************)
(* C9  Idempotence.                                                        *)
(***************************************************************************)
\* C9 as stated: the report the second run returns over the unchanged
\* catalogs is the report the first run returned: same rows, same values,
\* same order.
C9_Idempotence ==
    (pc = "done" /\ run = 2) => filtered_df = first_report

(***************************************************************************)
(* C3  Symmetry boundary.                                                  *)
(***************************************************************************)
\* What the rows of a source-only table have in common in both readings:
\* one row per compared column, the table verdict FAIL, every target-side
\* value the sentinel.
SourceOnlyShape(df, t) ==
    /\ Cardinality(RowsOfTable(df, t)) =
           Cardinality(ComparedColumns(source_cat, t))
    /\ \A c \in ComparedColumns(source_cat, t) :
           \E i \in RowsOfTable(df, t) : df[i].SOURCE_COLUMN_NAME = c
    /\ \A i \in RowsOfTable(df, t) :
           /\ df[i].STATUS_TABLE_NAME = "FAIL"
           /\ TargetValues(df[i]) = { NULL }

\* C3 as stated: for a table that only the source has, the report holds
\* exactly one row per non-excluded column, each with STATUS_TABLE_NAME =
\* FAIL, no source-side value equal to the sentinel, and every target-side
\* value equal to the sentinel.
C3_AllSourceValuesPopulated ==
    pc = "done" =>
        \A t \in source_cat.tables \ target_cat.tables :
            /\ SourceOnlyShape(filtered_df, t)
            /\ \A i \in RowsOfTable(filtered_df, t) :
                   NULL \notin SourceValues(filtered_df[i])

\* The source-side fields of a row against the catalog row of its column:
\* the names are the catalog's names, and an attribute field is the
\* sentinel exactly when the catalog holds no value (or an empty data type)
\* for it.
SourceSideFromCatalog(row, t) ==
    /\ row.SOURCE_TABLE_NAME = t
    /\ row.SOURCE_COLUMN_NAME \in ComparedColumns(source_cat, t)
    /\ LET r == CatalogRow(source_cat, t, row.SOURCE_COLUMN_NAME)
       IN  /\ IF r.DATA_TYPE \in { None, Some("") }
              THEN row.SOURCE_DATA_TYPE = NULL
              ELSE row.SOURCE_DATA_TYPE = r.DATA_TYPE[1]
           /\ (row.SOURCE_SCALE = NULL) <=> (r.NUMERIC_SCALE = None)
           /\ (row.SOURCE_PRECISION = NULL) <=> (r.NUMERIC_PRECISION = None)
           /\ (row.SOURCE_CHARACTER_MAXIMUM_LENGTH = NULL)
                  <=> (r.CHARACTER_MAXIMUM_LENGTH = None)

\* C3 as amended: for a table that only the source has, the report (and the
\* unfiltered set) holds exactly one row per non-excluded column, each with
\* STATUS_TABLE_NAME = FAIL, the source table and column names, every
\* source-side attribute the catalog holds a value for populated and the
\* others the sentinel, and every target-side value equal to the sentinel.
C3_SymmetryBoundary ==
    pc = "done" =>
        \A t \in source_cat.tables \ target_cat.tables :
            /\ SourceOnlyShape(filtered_df, t)
            /\ SourceOnlyShape(result_df, t)
            /\ \A i \in RowsOfTable(filtered_df, t) :
                   SourceSideFromCatalog(filtered_df[i], t)

\* A finished run over a source-only table that has two compared columns
\* and an excluded one.
C3_Witness ==
    /\ pc = "done"
    /\ "B" \in source_cat.tables \ target_cat.tables
    /\ Cardinality(ComparedColumns(source_cat, "B")) = 2
    /\ Present(source_cat, "B", "CREATED_AT")
    /\ Cardinality(RowsOfTable(filtered_df, "B")) = 2

(***************************************************************************)
(* C2  Missing tables are reported.                                        *)
(***************************************************************************)
\* A column of a table of both catalogs mismatches when it is missing on a
\* side or one of its attributes differs under the rules of the comparator.
AttributeDiffers(a1, a2) == a1 # a2

Mismatching(t, c) ==
    \/ ~Present(source_cat, t, c)
    \/ ~Present(target_cat, t, c)
    \/ LET r1 == CatalogRow(source_cat, t, c)
           r2 == CatalogRow(target_cat, t, c)
       IN  \/ r1.DATA_TYPE = None
           \/ r2.DATA_TYPE = None
           \/ AttributeDiffers(r1.DATA_TYPE, r2.DATA_TYPE)
           \/ AttributeDiffers(r1.NUMERIC_SCALE, r2.NUMERIC_SCALE)
           \/ AttributeDiffers(r1.NUMERIC_PRECISION, r2.NUMERIC_PRECISION)
           \/ LengthRule(r1.CHARACTER_MAXIMUM_LENGTH,
                         r2.CHARACTER_MAXIMUM_LENGTH) = "FAIL"

\* Every table only the source has is in the report, marked target-absent.
C2_SourceOnlyReported ==
    \A t \in source_cat.tables \ target_cat.tables :
        \E row \in Rows(filtered_df) :
            /\ row.SOURCE_TABLE_NAME = t
            /\ row.TARGET_TABLE_NAME = NULL
            /\ row.STATUS_TABLE_NAME = "FAIL"

\* Every table only the target has is in the report, marked source-absent.
C2_TargetOnlyReported ==
    \A t \in target_cat.tables \ source_cat.tables :
        \E row \in Rows(filtered_df) :
            /\ row.SOURCE_TABLE_NAME = NULL
            /\ row.TARGET_TABLE_NAME = t
            /\ row.STATUS_TABLE_NAME = "FAIL"

\* Of a table of both catalogs the report holds the mismatching columns only.
C2_CommonOnlyMismatches ==
    \A t \in source_cat.tables \cap target_cat.tables :
        \A c \in ComparedColumns(source_cat, t) \cup ComparedColumns(target_cat, t) :
            (\E row \in Rows(filtered_df) : TableOf(row) = t /\ ColumnOf(row) = c)
                <=> Mismatching(t, c)

\* C2 as stated: when main has returned, every table of S \ T has rows in
\* the report marked target-absent with STATUS_TABLE_NAME = FAIL, every table
\* of T \ S has rows marked source-absent with STATUS_TABLE_NAME = FAIL, and
\* of a table in both only the rows of its mismatching columns are reported.
C2_MissingTablesReported ==
    pc = "done" =>
        /\ C2_SourceOnlyReported
        /\ C2_TargetOnlyReported
        /\ C2_CommonOnlyMismatches

(***************************************************************************)
(* C6  Column-name rule.                                                   *)
(***************************************************************************)
\* C6 as stated: in every appended row STATUS_COLUMN_NAME is PASS exactly
\* when the reconciled column is in the source and in the target column set
\* of its table, whatever the column is called.
C6_ColumnNameRule ==
    \A row \in Rows(results) :
        (row.STATUS_COLUMN_NAME = "PASS")
            <=> /\ Present(source_cat, TableOf(row), ColumnOf(row))
                /\ Present(target_cat, TableOf(row), ColumnOf(row))

(***************************************************************************)
(* C7  The sentinel is never conflated with a present value.               *)
(***************************************************************************)
\* The four attribute fields of one side of a row against the catalog row
\* of that side: a field is the sentinel exactly when the attribute is
\* absent, and a present data type is reported as it is.
SideNotConflated(r, data_type, scale, precision, char_max_length) ==
    /\ (data_type = NULL) <=> (r.DATA_TYPE = None)
    /\ r.DATA_TYPE # None => data_type = r.DATA_TYPE[1]
    /\ (scale = NULL) <=> (r.NUMERIC_SCALE = None)
    /\ (precision = NULL) <=> (r.NUMERIC_PRECISION = None)
    /\ (char_max_length = NULL) <=> (r.CHARACTER_MAXIMUM_LENGTH = None)

\* C7 as stated: in every appended row, on each side that has the column, a
\* value field is the sentinel only when the attribute is absent there;
\* scale 0, precision 0, length 0 and an empty data type are reported as
\* themselves.
C7_SentinelNotConflated ==
    \A row \in Rows(results) :
        LET t == TableOf(row)
            c == ColumnOf(row)
        IN  /\ Present(source_cat, t, c) =>
                   SideNotConflated(CatalogRow(source_cat, t, c),
                       row.SOURCE_DATA_TYPE, row.SOURCE_SCALE,
                       row.SOURCE_PRECISION,
                       row.SOURCE_CHARACTER_MAXIMUM_LENGTH)
            /\ Present(target_cat, t, c) =>
                   SideNotConflated(CatalogRow(target_cat, t, c),
                       row.TARGET_DATA_TYPE, row.TARGET_SCALE,
                       row.TARGET_PRECISION,
                       row.TARGET_CHARACTER_MAXIMUM_LENGTH)

(***************************************************************************)
(* C10  Table-pair evaluations are independent.                            *)
(***************************************************************************)
\* C10 as stated: after every iteration table2_name is None or the table
\* just processed, also when the second lookup of the target table returned
\* no row, and in every appended row TARGET_TABLE_NAME is the sentinel or
\* the table the row was assembled for.
C10_NoLeftoverTargetTable ==
    /\ (pc \in { "loop", "cols1", "cols2" } /\ table_name # None) =>
           table2_name \in { None, table_name }
    /\ \A row \in Rows(results) :
           row.SOURCE_TABLE_NAME # NULL =>
               row.TARGET_TABLE_NAME \in { NULL, row.SOURCE_TABLE_NAME }

====
